---- MODULE Spec2Model ----
(***************************************************************************)
(* Model of backend/app1.py: the Flask chat endpoint and the response      *)
(* resolver find_best_response.                                            *)
(*                                                                         *)
(* Text is a sequence of Unicode code points, so that strip(), lower(),    *)
(* the keyword scan, the Devanagari range test and re.fullmatch are        *)
(* computed, not assumed.  A confidence is a number of thousandths         *)
(* (1.0 is 1000, the threshold 0.5 is 500).  The external services         *)
(* (langdetect, googletrans, the SBERT encoder) are nondeterministic:      *)
(* each call returns one of its possible results or raises.                *)
(***************************************************************************)
EXTENDS Integers, Sequences, FiniteSets, TLC

VARIABLES
  pc,                  \* position of the process / of the request in the code
  dataset_file,        \* the dataset file as found at startup
  qa_data,             \* module global, list of <<question, answer>>
  question_embeddings, \* module global, defined only when qa_data is non-empty
  message,             \* the "message" member of the request's JSON body
  detector,            \* what langdetect's detect() makes of this request's text
  user_input,          \* chat(): data.get("message", "").strip()
  original_input,      \* find_best_response local
  detected_lang,       \* find_best_response local
  is_romanish,         \* find_best_response local
  needs_translation,   \* find_best_response local (truthiness)
  translated,          \* find_best_response local
  similarities,        \* find_best_response local
  best_match_idx,      \* find_best_response local (1-based here)
  best_match_score,    \* find_best_response local
  response,            \* find_best_response local / returned text
  confidence,          \* returned confidence
  outcome,             \* which return statement ended the request
  calls,               \* the steps and external calls made by the request, in order
  failed,              \* the external calls of the request that raised
  status,              \* HTTP status of the reply
  body                 \* JSON body of the reply

vars == <<pc, dataset_file, qa_data, question_embeddings, message, detector, user_input, original_input,
          detected_lang, is_romanish, needs_translation, translated, similarities,
          best_match_idx, best_match_score, response, confidence, outcome, calls,
          failed, status, body>>

(***************************************************************************)
(* Bounds and sample inputs                                                *)
(***************************************************************************)
\* longest raw message, in code points
MaxLen == 3

\* code points a raw message is made of: space, y, o, O, r, g and the
\* Devanagari letter KA (U+0915)
Chars == {32, 121, 111, 79, 114, 103, 2325}

RECURSIVE TextsOfLen(_)
TextsOfLen(n) ==
  IF n = 0 THEN {<<>>}
  ELSE {Append(t, c) : t \in TextsOfLen(n - 1), c \in Chars}

Texts == UNION {TextsOfLen(n) : n \in 0..MaxLen}

\* the "message" member of the request body: missing, JSON null, or a string
Messages ==
  {[kind |-> "absent", text |-> <<>>], [kind |-> "null", text |-> <<>>]}
    \cup {[kind |-> "str", text |-> t] : t \in Texts}

\* tags the language detector may return
DetectorTags == {"en", "hi", "ru"}

\* what a call of detect() does: return a tag, or raise
DetectorResults == DetectorTags \cup {"raise"}

\* texts the translation service may return for the inbound call:
\* " Yo " (a pattern once lowered and stripped) and "go" (no pattern)
InboundTranslations == {<<32, 89, 111, 32>>, <<103, 111>>}

\* cosine similarities the encoder may produce, in thousandths
ScoreVals == {-1000, 499, 500, 1000}

\* the lines of the sample dataset file
DatasetLines ==
  << [prompt |-> <<82, 105, 99, 101>>, completion |-> "Rice needs standing water."],
     [prompt |-> <<83, 111, 105, 108>>, completion |-> "Test the soil every season."] >>

\* the dataset file at startup: missing, or holding the first n sample lines
DatasetFiles ==
  {[exists |-> FALSE, lines |-> <<>>]}
    \cup {[exists |-> TRUE, lines |-> SubSeq(DatasetLines, 1, n)] :
            n \in 0..Len(DatasetLines)}

(***************************************************************************)
(* Text functions                                                          *)
(***************************************************************************)
\* str.lower() on one code point (ASCII capitals; Devanagari has no case)
LowerChar(c) == IF c >= 65 /\ c <= 90 THEN c + 32 ELSE c

RECURSIVE Lower(_)
Lower(s) == IF s = <<>> THEN <<>> ELSE <<LowerChar(Head(s))>> \o Lower(Tail(s))

\* the code points str.strip() removes
IsSpace(c) == c \in {9, 10, 11, 12, 13, 28, 29, 30, 31, 32, 133, 160}

RECURSIVE LStrip(_)
LStrip(s) == IF s # <<>> /\ IsSpace(Head(s)) THEN LStrip(Tail(s)) ELSE s

RECURSIVE RStrip(_)
RStrip(s) ==
  IF s # <<>> /\ IsSpace(s[Len(s)]) THEN RStrip(SubSeq(s, 1, Len(s) - 1)) ELSE s

Strip(s) == RStrip(LStrip(s))

\* Python's  word in text  (substring test)
Contains(text, word) ==
  \E i \in 0..(Len(text) - Len(word)) :
    \A j \in 1..Len(word) : text[i + j] = word[j]

\* re.search("[\u0900-\u097F]", text): U+0900 is 2304, U+097F is 2431
HasDevanagari(text) == \E i \in 1..Len(text) : text[i] >= 2304 /\ text[i] <= 2431

\* re.fullmatch(pattern, text): every pattern of the table is a sequence of
\* literal characters (letters, spaces, one apostrophe), so the whole text
\* must be that sequence
FullMatch(pattern, text) ==
  /\ Len(text) = Len(pattern)
  /\ \A i \in 1..Len(pattern) : text[i] = pattern[i]

(***************************************************************************)
(* Tables of the program                                                   *)
(***************************************************************************)
\* the pattern table, in its order (the first full match wins); patterns as
\* code points; the typographic apostrophe of the "hey" response is written '
predefined_responses ==
  <<
    (* how are you                    *) [pattern |-> <<104, 111, 119, 32, 97, 114, 101, 32, 121, 111, 117>>,
       response |-> "I'm just a chatbot, but I'm doing great! How about you?"],
    (* how's it going                 *) [pattern |-> <<104, 111, 119, 39, 115, 32, 105, 116, 32, 103, 111, 105, 110, 103>>,
       response |-> "Everything is running smoothly! How can I assist you?"],
    (* how do you do                  *) [pattern |-> <<104, 111, 119, 32, 100, 111, 32, 121, 111, 117, 32, 100, 111>>,
       response |-> "I'm doing well! Thanks for asking. How can I help?"],
    (* what is your name              *) [pattern |-> <<119, 104, 97, 116, 32, 105, 115, 32, 121, 111, 117, 114, 32, 110, 97, 109, 101>>,
       response |-> "I'm your Agricultural Chatbot! Here to assist you with farming-related queries."],
    (* who are you                    *) [pattern |-> <<119, 104, 111, 32, 97, 114, 101, 32, 121, 111, 117>>,
       response |-> "I'm an AI-powered agricultural chatbot, here to help farmers and agriculture enthusiasts."],
    (* what can you do                *) [pattern |-> <<119, 104, 97, 116, 32, 99, 97, 110, 32, 121, 111, 117, 32, 100, 111>>,
       response |-> "I can provide information related to farming, crops, and agricultural best practices."],
    (* who created you                *) [pattern |-> <<119, 104, 111, 32, 99, 114, 101, 97, 116, 101, 100, 32, 121, 111, 117>>,
       response |-> "I was developed as part of a research project on AI and ML-powered agricultural chatbots."],
    (* are you a robot                *) [pattern |-> <<97, 114, 101, 32, 121, 111, 117, 32, 97, 32, 114, 111, 98, 111, 116>>,
       response |-> "Yes, I'm an AI chatbot, designed to help with agricultural questions."],
    (* do you speak other languages   *) [pattern |-> <<100, 111, 32, 121, 111, 117, 32, 115, 112, 101, 97, 107, 32, 111, 116, 104, 101, 114, 32, 108, 97, 110, 103, 117, 97, 103, 101, 115>>,
       response |-> "Currently, I only support English."],
    (* tell me a joke                 *) [pattern |-> <<116, 101, 108, 108, 32, 109, 101, 32, 97, 32, 106, 111, 107, 101>>,
       response |-> "Why did the farmer win an award? Because he was outstanding in his field!"],
    (* tell me something interesting  *) [pattern |-> <<116, 101, 108, 108, 32, 109, 101, 32, 115, 111, 109, 101, 116, 104, 105, 110, 103, 32, 105, 110, 116, 101, 114, 101, 115, 116, 105, 110, 103>>,
       response |-> "Did you know? Earthworms can improve soil fertility by breaking down organic matter into nutrient-rich compost!"],
    (* hello                          *) [pattern |-> <<104, 101, 108, 108, 111>>,
       response |-> "Hello! How can I assist you today?"],
    (* hi                             *) [pattern |-> <<104, 105>>,
       response |-> "Hi there! What would you like to know?"],
    (* hey                            *) [pattern |-> <<104, 101, 121>>,
       response |-> "Hey! How's it going?"],
    (* good morning                   *) [pattern |-> <<103, 111, 111, 100, 32, 109, 111, 114, 110, 105, 110, 103>>,
       response |-> "Good morning! Hope you have a great day ahead."],
    (* good afternoon                 *) [pattern |-> <<103, 111, 111, 100, 32, 97, 102, 116, 101, 114, 110, 111, 111, 110>>,
       response |-> "Good afternoon! How can I help?"],
    (* good evening                   *) [pattern |-> <<103, 111, 111, 100, 32, 101, 118, 101, 110, 105, 110, 103>>,
       response |-> "Good evening! Need any assistance?"],
    (* good night                     *) [pattern |-> <<103, 111, 111, 100, 32, 110, 105, 103, 104, 116>>,
       response |-> "Good night! Take care and rest well."],
    (* howdy                          *) [pattern |-> <<104, 111, 119, 100, 121>>,
       response |-> "Howdy! What brings you here today?"],
    (* yo                             *) [pattern |-> <<121, 111>>,
       response |-> "Yo! What's up?"],
    (* namaste                        *) [pattern |-> <<110, 97, 109, 97, 115, 116, 101>>,
       response |-> "Namaste! How can I assist you?"],
    (* hola                           *) [pattern |-> <<104, 111, 108, 97>>,
       response |-> "Hola! How can I help you?"],
    (* bonjour                        *) [pattern |-> <<98, 111, 110, 106, 111, 117, 114>>,
       response |-> "Bonjour! What do you need assistance with?"]
  >>

\* the romanized Hindi/Marathi keywords, as code points
hindi_marathi_keywords ==
  <<
    (* kya     *) <<107, 121, 97>>,
    (* kaise   *) <<107, 97, 105, 115, 101>>,
    (* kab     *) <<107, 97, 98>>,
    (* kyu     *) <<107, 121, 117>>,
    (* bhat    *) <<98, 104, 97, 116>>,
    (* sheti   *) <<115, 104, 101, 116, 105>>,
    (* pani    *) <<112, 97, 110, 105>>,
    (* fasal   *) <<102, 97, 115, 97, 108>>,
    (* ugae    *) <<117, 103, 97, 101>>,
    (* zameen  *) <<122, 97, 109, 101, 101, 110>>,
    (* shet    *) <<115, 104, 101, 116>>,
    (* krishi  *) <<107, 114, 105, 115, 104, 105>>,
    (* beej    *) <<98, 101, 101, 106>>,
    (* ugana   *) <<117, 103, 97, 110, 97>>,
    (* ugaye   *) <<117, 103, 97, 121, 101>>,
    (* khet    *) <<107, 104, 101, 116>>,
    (* paani   *) <<112, 97, 97, 110, 105>>,
    (* anna    *) <<97, 110, 110, 97>>,
    (* jal     *) <<106, 97, 108>>,
    (* khad    *) <<107, 104, 97, 100>>,
    (* rog     *) <<114, 111, 103>>,
    (* beej    *) <<98, 101, 101, 106>>,
    (* sheti   *) <<115, 104, 101, 116, 105>>
  >>

allowed_languages == {"en", "hi", "mr", "gu", "bn", "ta", "te", "kn", "ml", "pa"}

NoDataMessage == "Error: No data available."

RejectMessage == "Sorry, I can only understand major Indian languages like Hindi, Marathi, Gujarati, Bengali, Tamil, Telugu, Kannada, Malayalam, Punjabi, and English."

FallbackMessage == "I'm sorry, I don't have an answer for that."

InvalidMessage == "Please enter a valid question."

\* an English string of the program, as returned
English(text) == [text |-> text, tr |-> "none"]

\* translator.translate(text, src='en', dest=lang).text : some other string
Translated(text, lang) == [text |-> text, tr |-> lang]

NoResponse == English("")

\* 1.0, in thousandths
PatternConfidence == 1000

\* 0.5, in thousandths
Threshold == 500

\* index of the first rule of the table that fully matches, 0 when none does
FirstMatch(text) ==
  LET hits == {i \in 1..Len(predefined_responses) :
                 FullMatch(predefined_responses[i].pattern, text)}
  IN IF hits = {} THEN 0 ELSE CHOOSE i \in hits : \A j \in hits : i <= j

\* the keyword scan without lower(): capitalised keywords go unnoticed
IsRomanishCaseSensitive(text) ==
  \E k \in 1..Len(hindi_marathi_keywords) :
    Contains(text, hindi_marathi_keywords[k])

\* any(word in original_input.lower() for word in hindi_marathi_keywords)
IsRomanish(text) ==
  \E k \in 1..Len(hindi_marathi_keywords) :
    Contains(Lower(text), hindi_marathi_keywords[k])

\* np.argmax: the first index of the maximum
ArgMax(sims) ==
  CHOOSE i \in 1..Len(sims) :
    /\ \A j \in 1..Len(sims) : sims[j] <= sims[i]
    /\ \A j \in 1..(i - 1) : sims[j] < sims[i]

\* round(x, 2) on thousandths: nearest hundredth, ties to even
Round2(x) ==
  LET q == x \div 10
      r == x % 10
  IN IF r < 5 THEN 10 * q
     ELSE IF r > 5 THEN 10 * (q + 1)
     ELSE IF q % 2 = 0 THEN 10 * q ELSE 10 * (q + 1)

\* load_dataset(filepath)
load_dataset(file) ==
  IF file.exists
  THEN [i \in 1..Len(file.lines) |->
          <<Lower(file.lines[i].prompt), file.lines[i].completion>>]
  ELSE <<>>

(***************************************************************************)
(* Language classification (find_best_response, lines 83-103)              *)
(***************************************************************************)
\* the tag after the keyword override
FinalLang(lang, text) == IF IsRomanish(text) THEN "hi" ELSE lang

\* the rejection test
Unsupported(lang, text) == lang \notin allowed_languages /\ ~HasDevanagari(text)

\* needs_translation decided by the tag alone
NeedsTranslationByTag(lang, text) == lang # "en"

\* needs_translation, as a truth value
NeedsTranslation(lang, text) ==
  lang # "en" \/ HasDevanagari(text) \/ IsRomanish(text)

\* translated.lower().strip()
Normalise(text) == Strip(Lower(text))

(***************************************************************************)
(* State                                                                   *)
(***************************************************************************)
NoMessage == [kind |-> "absent", text |-> <<>>]

NoBody == [response |-> NoResponse, confidence |-> 0]

Init ==
  /\ pc = "boot"
  /\ dataset_file = [exists |-> FALSE, lines |-> <<>>]
  /\ qa_data = <<>>
  /\ question_embeddings = [defined |-> FALSE, rows |-> <<>>]
  /\ message = NoMessage
  /\ detector = "en"
  /\ user_input = <<>>
  /\ original_input = <<>>
  /\ detected_lang = "none"
  /\ is_romanish = FALSE
  /\ needs_translation = FALSE
  /\ translated = <<>>
  /\ similarities = <<>>
  /\ best_match_idx = 0
  /\ best_match_score = 0
  /\ response = NoResponse
  /\ confidence = 0
  /\ outcome = "none"
  /\ calls = <<>>
  /\ failed = {}
  /\ status = 0
  /\ body = NoBody

globals == <<dataset_file, qa_data, question_embeddings>>

(***************************************************************************)
(* Startup (module level, lines 33-40)                                     *)
(***************************************************************************)
Startup ==
  /\ pc = "boot"
  /\ \E file \in DatasetFiles :
       LET data == load_dataset(file)
       IN /\ dataset_file' = file
          /\ qa_data' = data
          /\ question_embeddings' =
               IF Len(data) > 0
               THEN [defined |-> TRUE, rows |-> [i \in 1..Len(data) |-> data[i][1]]]
               ELSE [defined |-> FALSE, rows |-> <<>>]
  /\ pc' = "idle"
  /\ UNCHANGED <<message, detector, user_input, original_input, detected_lang,
                 is_romanish, needs_translation, translated, similarities, best_match_idx,
                 best_match_score, response, confidence, outcome, calls, failed,
                 status, body>>

(***************************************************************************)
(* chat(), lines 159-172                                                   *)
(***************************************************************************)
\* a POST /chat arrives; data = request.json.  The request fixes the message
\* and, with it, what detect() will do with the text (a tag, or an exception).
ChatReceive ==
  /\ pc = "idle"
  /\ \E m \in Messages : message' = m
  /\ \E d \in DetectorResults : detector' = d
  /\ pc' = "chat"
  /\ UNCHANGED <<globals, user_input, original_input, detected_lang, is_romanish,
                 needs_translation, translated, similarities, best_match_idx,
                 best_match_score, response, confidence, outcome, calls, failed,
                 status, body>>

\* user_input = data.get("message", "").strip(); the empty-message reply.
\* A JSON null is returned by get() as None, and None.strip() raises
\* AttributeError, which nothing catches: the framework replies 500.
ChatValidate ==
  /\ pc = "chat"
  /\ IF message.kind = "null"
     THEN /\ status' = 500
          /\ outcome' = "crash"
          /\ pc' = "done"
          /\ UNCHANGED <<user_input, body>>
     ELSE LET text == Strip(message.text)
          IN /\ user_input' = text
             /\ IF text = <<>>
                THEN /\ status' = 400
                     /\ body' = [response |-> English(InvalidMessage), confidence |-> 0]
                     /\ outcome' = "invalid"
                     /\ pc' = "done"
                ELSE /\ pc' = "fbr"
                     /\ UNCHANGED <<status, body, outcome>>
  /\ UNCHANGED <<globals, message, detector, original_input, detected_lang, is_romanish,
                 needs_translation, translated, similarities, best_match_idx,
                 best_match_score, response, confidence, calls, failed>>

\* return jsonify({response, confidence: round(confidence_score, 2)})
ChatRespond ==
  /\ pc = "respond"
  /\ status' = 200
  /\ body' = [response |-> response, confidence |-> Round2(confidence)]
  /\ pc' = "done"
  /\ UNCHANGED <<globals, message, detector, user_input, original_input, detected_lang,
                 is_romanish, needs_translation, translated, similarities,
                 best_match_idx, best_match_score, response, confidence, outcome,
                 calls, failed>>

\* the request is over; the next one starts from nothing (no shared state)
NextRequest ==
  /\ pc = "done"
  /\ pc' = "idle"
  /\ message' = NoMessage
  /\ detector' = "en"
  /\ user_input' = <<>>
  /\ original_input' = <<>>
  /\ detected_lang' = "none"
  /\ is_romanish' = FALSE
  /\ needs_translation' = FALSE
  /\ translated' = <<>>
  /\ similarities' = <<>>
  /\ best_match_idx' = 0
  /\ best_match_score' = 0
  /\ response' = NoResponse
  /\ confidence' = 0
  /\ outcome' = "none"
  /\ calls' = <<>>
  /\ failed' = {}
  /\ status' = 0
  /\ body' = NoBody
  /\ UNCHANGED globals

(***************************************************************************)
(* find_best_response, lines 70-152                                        *)
(***************************************************************************)
\* find_best_response without its empty-dataset return
CheckDataNoGuard ==
  /\ pc = "fbr"
  /\ original_input' = Strip(user_input)
  /\ pc' = "detect"
  /\ UNCHANGED <<response, confidence, outcome>>
  /\ UNCHANGED <<globals, message, detector, user_input, detected_lang, is_romanish,
                 needs_translation, translated, similarities, best_match_idx,
                 best_match_score, calls, failed, status, body>>

\* lines 71-74: the empty-dataset return, then original_input
CheckData ==
  /\ pc = "fbr"
  /\ IF Len(qa_data) = 0
     THEN /\ response' = English(NoDataMessage)
          /\ confidence' = 0
          /\ outcome' = "no_data"
          /\ pc' = "respond"
          /\ UNCHANGED original_input
     ELSE /\ original_input' = Strip(user_input)
          /\ pc' = "detect"
          /\ UNCHANGED <<response, confidence, outcome>>
  /\ UNCHANGED <<globals, message, detector, user_input, detected_lang, is_romanish,
                 needs_translation, translated, similarities, best_match_idx,
                 best_match_score, calls, failed, status, body>>

\* lines 76-81: detect(original_input) returns a tag, or raises and the
\* handler sets 'en'
Detect ==
  /\ pc = "detect"
  /\ IF detector = "raise"
     THEN detected_lang' = "en" /\ failed' = failed \cup {"detect"}
     ELSE detected_lang' = detector /\ failed' = failed
  /\ calls' = Append(calls, "detect")
  /\ pc' = "classify"
  /\ UNCHANGED <<globals, message, detector, user_input, original_input, is_romanish,
                 needs_translation, translated, similarities, best_match_idx,
                 best_match_score, response, confidence, outcome, status, body>>

\* the classification going straight to the pattern table, the inbound
\* translation left out
ClassifySkipTranslation ==
  /\ pc = "classify"
  /\ is_romanish' = IsRomanish(original_input)
  /\ detected_lang' = FinalLang(detected_lang, original_input)
  /\ calls' = Append(calls, "classify")
  /\ IF Unsupported(detected_lang', original_input)
     THEN /\ response' = English(RejectMessage)
          /\ confidence' = 0
          /\ outcome' = "rejected"
          /\ pc' = "respond"
          /\ UNCHANGED needs_translation
     ELSE /\ needs_translation' = NeedsTranslation(detected_lang', original_input)
          /\ pc' = "patterns"
          /\ UNCHANGED <<response, confidence, outcome>>
  /\ UNCHANGED <<globals, message, detector, user_input, original_input, translated,
                 similarities, best_match_idx, best_match_score, failed, status,
                 body>>

\* lines 83-103: keyword override, rejection, needs_translation
Classify ==
  /\ pc = "classify"
  /\ is_romanish' = IsRomanish(original_input)
  /\ detected_lang' = FinalLang(detected_lang, original_input)
  /\ calls' = Append(calls, "classify")
  /\ IF Unsupported(detected_lang', original_input)
     THEN /\ response' = English(RejectMessage)
          /\ confidence' = 0
          /\ outcome' = "rejected"
          /\ pc' = "respond"
          /\ UNCHANGED needs_translation
     ELSE /\ needs_translation' = NeedsTranslation(detected_lang', original_input)
          /\ pc' = "translate_in"
          /\ UNCHANGED <<response, confidence, outcome>>
  /\ UNCHANGED <<globals, message, detector, user_input, original_input, translated,
                 similarities, best_match_idx, best_match_score, failed, status,
                 body>>

\* the inbound translation whose except block leaves the text empty
TranslateInputDropOnError ==
  /\ pc = "translate_in"
  /\ IF needs_translation
     THEN /\ calls' = Append(calls, "translate_in")
          /\ \/ \E t \in InboundTranslations :
                  translated' = Normalise(t) /\ failed' = failed
             \/ /\ translated' = <<>>
                /\ failed' = failed \cup {"translate_in"}
     ELSE /\ translated' = Normalise(original_input)
          /\ UNCHANGED <<calls, failed>>
  /\ pc' = "patterns"
  /\ UNCHANGED <<globals, message, detector, user_input, original_input, detected_lang,
                 is_romanish, needs_translation, similarities, best_match_idx,
                 best_match_score, response, confidence, outcome, status, body>>

\* lines 105-115: the inbound translation, its fallback, lower().strip()
TranslateInput ==
  /\ pc = "translate_in"
  /\ IF needs_translation
     THEN /\ calls' = Append(calls, "translate_in")
          /\ \/ \E t \in InboundTranslations :
                  translated' = Normalise(t) /\ failed' = failed
             \/ /\ translated' = Normalise(original_input)
                /\ failed' = failed \cup {"translate_in"}
     ELSE /\ translated' = Normalise(original_input)
          /\ UNCHANGED <<calls, failed>>
  /\ pc' = "patterns"
  /\ UNCHANGED <<globals, message, detector, user_input, original_input, detected_lang,
                 is_romanish, needs_translation, similarities, best_match_idx,
                 best_match_score, response, confidence, outcome, status, body>>

\* lines 118-119: the loop over the pattern table, up to its first full match
CheckPatterns ==
  /\ pc = "patterns"
  /\ calls' = Append(calls, "patterns")
  /\ LET i == FirstMatch(translated)
     IN IF i # 0
        THEN response' = English(predefined_responses[i].response) /\ pc' = "pattern_hit"
        ELSE response' = response /\ pc' = "encode"
  /\ UNCHANGED <<globals, message, detector, user_input, original_input, detected_lang,
                 is_romanish, needs_translation, translated, similarities,
                 best_match_idx, best_match_score, confidence, outcome, failed,
                 status, body>>

\* the outbound translation of an English string (lines 120-124, 136-140,
\* 146-150): attempted when needs_translation, kept in English when it raises
TranslateResponse(text) ==
  IF needs_translation
  THEN /\ calls' = Append(calls, "translate_out")
       /\ \/ response' = Translated(text, detected_lang) /\ failed' = failed
          \/ response' = English(text) /\ failed' = failed \cup {"translate_out"}
  ELSE /\ response' = English(text)
       /\ UNCHANGED <<calls, failed>>

\* lines 120-125: return response, 1.0
ReturnPattern ==
  /\ pc = "pattern_hit"
  /\ TranslateResponse(response.text)
  /\ confidence' = PatternConfidence
  /\ outcome' = "pattern_hit"
  /\ pc' = "respond"
  /\ UNCHANGED <<globals, message, detector, user_input, original_input, detected_lang,
                 is_romanish, needs_translation, translated, similarities,
                 best_match_idx, best_match_score, status, body>>

\* lines 128-132: encode the query, cosine similarities, argmax.  Reading
\* question_embeddings while it is undefined raises NameError (reply 500).
Encode ==
  /\ pc = "encode"
  /\ calls' = Append(calls, "encode")
  /\ IF question_embeddings.defined
     THEN /\ \E sims \in [1..Len(question_embeddings.rows) -> ScoreVals] :
               /\ similarities' = sims
               /\ best_match_idx' = ArgMax(sims)
               /\ best_match_score' = sims[ArgMax(sims)]
          /\ pc' = "threshold"
          /\ UNCHANGED <<status, outcome>>
     ELSE /\ status' = 500
          /\ outcome' = "crash"
          /\ pc' = "done"
          /\ UNCHANGED <<similarities, best_match_idx, best_match_score>>
  /\ UNCHANGED <<globals, message, detector, user_input, original_input, detected_lang,
                 is_romanish, needs_translation, translated, response, confidence,
                 failed, body>>

\* the low-confidence return taken for a score equal to the threshold too
ReturnFallbackAtThreshold ==
  /\ pc = "threshold"
  /\ best_match_score <= Threshold
  /\ TranslateResponse(FallbackMessage)
  /\ confidence' = best_match_score
  /\ outcome' = "low_confidence"
  /\ pc' = "respond"
  /\ UNCHANGED <<globals, message, detector, user_input, original_input, detected_lang,
                 is_romanish, needs_translation, translated, similarities,
                 best_match_idx, best_match_score, status, body>>

\* lines 134-141: the low-confidence return
ReturnFallback ==
  /\ pc = "threshold"
  /\ best_match_score < Threshold
  /\ TranslateResponse(FallbackMessage)
  /\ confidence' = best_match_score
  /\ outcome' = "low_confidence"
  /\ pc' = "respond"
  /\ UNCHANGED <<globals, message, detector, user_input, original_input, detected_lang,
                 is_romanish, needs_translation, translated, similarities,
                 best_match_idx, best_match_score, status, body>>

\* the matched answer reported with a percentage for its confidence
ReturnAnswerPercent ==
  /\ pc = "threshold"
  /\ ~(best_match_score < Threshold)
  /\ TranslateResponse(qa_data[best_match_idx][2])
  /\ confidence' = best_match_score * 100
  /\ outcome' = "match"
  /\ pc' = "respond"
  /\ UNCHANGED <<globals, message, detector, user_input, original_input, detected_lang,
                 is_romanish, needs_translation, translated, similarities,
                 best_match_idx, best_match_score, status, body>>

\* lines 143-152: the matched answer
ReturnAnswer ==
  /\ pc = "threshold"
  /\ ~(best_match_score < Threshold)
  /\ TranslateResponse(qa_data[best_match_idx][2])
  /\ confidence' = best_match_score
  /\ outcome' = "match"
  /\ pc' = "respond"
  /\ UNCHANGED <<globals, message, detector, user_input, original_input, detected_lang,
                 is_romanish, needs_translation, translated, similarities,
                 best_match_idx, best_match_score, status, body>>

Next ==
  \/ Startup
  \/ ChatReceive
  \/ ChatValidate
  \/ CheckData
  \/ Detect
  \/ Classify
  \/ TranslateInput
  \/ CheckPatterns
  \/ ReturnPattern
  \/ Encode
  \/ ReturnFallback
  \/ ReturnAnswer
  \/ ChatRespond
  \/ NextRequest

Spec == Init /\ [][Next]_vars

(***************************************************************************)
(* Properties                                                              *)
(***************************************************************************)
\* the text find_best_response works on: the message, trimmed
RawText == Strip(message.text)

\* the step or external call was made by the current request
Consulted(step) == \E i \in 1..Len(calls) : calls[i] = step

\* find_best_response has returned and chat() is about to reply
Returned == pc = "respond"

\* the keywords, as a set
Keywords == {hindi_marathi_keywords[k] : k \in 1..Len(hindi_marathi_keywords)}

\* some stretch of the text is a keyword
HasKeyword(text) ==
  \E i \in 1..Len(text) : \E j \in i..Len(text) : SubSeq(text, i, j) \in Keywords

\* a keyword of the list occurs in the raw text, whatever its case
KeywordPresent == HasKeyword(Lower(RawText))

\* the final language tag of the request: detection, failure default, override
RequestTag ==
  IF KeywordPresent THEN "hi"
  ELSE IF detector = "raise" THEN "en" ELSE detector

\* the request's tag is outside the allow-list and its text has no Devanagari
RequestUnsupported ==
  RequestTag \notin allowed_languages /\ ~HasDevanagari(RawText)

\* the request calls for a translation
RequestNeedsTranslation ==
  RequestTag # "en" \/ HasDevanagari(RawText) \/ KeywordPresent

\* the processed text of the request is known: the pipeline computed it, or
\* no translation is involved and it is the raw text, lowercased and trimmed
ProcessedKnown == Consulted("patterns") \/ ~RequestNeedsTranslation

ProcessedText == IF Consulted("patterns") THEN translated ELSE Normalise(RawText)

\* the English string and the confidence that go with the outcome
OutcomeText ==
  CASE outcome = "pattern_hit" -> predefined_responses[FirstMatch(translated)].response
    [] outcome = "low_confidence" -> FallbackMessage
    [] outcome = "match" -> qa_data[best_match_idx][2]
    [] outcome = "no_data" -> NoDataMessage
    [] outcome = "rejected" -> RejectMessage
    [] OTHER -> ""

OutcomeConfidence ==
  CASE outcome = "pattern_hit" -> PatternConfidence
    [] outcome \in {"low_confidence", "match"} -> best_match_score
    [] OTHER -> 0

\* C1: whatever the dataset (loaded or empty) and whatever the translation
\* calls do, a request that is not rejected and whose processed text fully
\* matches a rule of the pattern table gets that rule's response, translated
\* or not, with confidence exactly 1.0.
C1_PatternHitAlways ==
  (Returned /\ ProcessedKnown /\ FirstMatch(ProcessedText) # 0 /\ ~RequestUnsupported)
    => /\ response.text = predefined_responses[FirstMatch(ProcessedText)].response
       /\ confidence = PatternConfidence

\* C1 on a loaded dataset only: the same statement, which the code satisfies
C1_PatternHitWhenLoaded == Len(qa_data) > 0 => C1_PatternHitAlways

\* C2: in every outcome of find_best_response the returned confidence lies
\* in [0.0, 1.0], the similarity score being any cosine in [-1, 1].
C2_ConfidenceInUnitInterval ==
  Returned => confidence >= 0 /\ confidence <= PatternConfidence

\* C2, amended: the returned confidence lies in [-1.0, 1.0]; it is the raw
\* best similarity score in the two embedding outcomes and 0.0 or 1.0 in the
\* others, so it lies in [0.0, 1.0] whenever the best score is not negative.
C2_ConfidenceIsScore ==
  Returned =>
    /\ confidence >= -PatternConfidence /\ confidence <= PatternConfidence
    /\ confidence = OutcomeConfidence
    /\ (best_match_score >= 0 => confidence >= 0)

C2_NegativeConfidence ==
  /\ Returned
  /\ outcome = "low_confidence"
  /\ best_match_score < 0
  /\ confidence = best_match_score

\* C3: a request whose final tag is outside the allow-list and whose raw text
\* has no Devanagari code point gets the unsupported-language message in
\* English with confidence 0.0, and no translation call is made for it.
C3_RejectionLaw ==
  (Returned /\ RequestUnsupported)
    => /\ response = English(RejectMessage)
       /\ confidence = 0
       /\ ~Consulted("translate_in")
       /\ ~Consulted("translate_out")

\* C3 on a loaded dataset only: the same statement, which the code satisfies
C3_RejectionLawWhenLoaded == Len(qa_data) > 0 => C3_RejectionLaw

\* C4: a failing translation call never aborts the request.  When the
\* inbound call fails, matching goes on with the raw input lowercased and
\* trimmed; when the outbound call fails, the English string of the outcome
\* is returned, with the confidence the outcome has when the call succeeds.
C4_TranslationFallback ==
  /\ (failed \cap {"translate_in", "translate_out"} # {})
       => /\ outcome # "crash"
          /\ (pc = "done" => status = 200)
  /\ "translate_in" \in failed => translated = Normalise(RawText)
  /\ (Returned /\ "translate_out" \in failed)
       => response = English(OutcomeText) /\ confidence = OutcomeConfidence
  /\ (Returned /\ Consulted("translate_out") /\ "translate_out" \notin failed)
       => /\ response = Translated(OutcomeText, detected_lang)
          /\ confidence = OutcomeConfidence

C4_BothCallsFailed ==
  /\ Returned
  /\ {"translate_in", "translate_out"} \subseteq failed
  /\ translated = Normalise(RawText)
  /\ response = English(OutcomeText)

\* C5: when the embedding index is consulted, the best score is the maximum
\* similarity and sits at the returned index; a score >= 0.5 gives the stored
\* answer at that index, a score < 0.5 the fixed fallback string; either way
\* the confidence is the raw score.
C5_ThresholdLaw ==
  (Returned /\ Consulted("encode")) =>
    /\ Len(qa_data) > 0 /\ outcome \in {"low_confidence", "match"}
    /\ best_match_idx \in 1..Len(qa_data)
    /\ best_match_score = similarities[best_match_idx]
    /\ \A j \in 1..Len(similarities) : similarities[j] <= best_match_score
    /\ best_match_score >= Threshold
         => outcome = "match" /\ response.text = qa_data[best_match_idx][2]
    /\ best_match_score < Threshold
         => outcome = "low_confidence" /\ response.text = FallbackMessage
    /\ confidence = best_match_score

C5_MatchAtThreshold ==
  /\ Returned
  /\ outcome = "match"
  /\ best_match_score = Threshold
  /\ best_match_idx = 2
  /\ response.text = qa_data[2][2]

\* C7: in a request that was classified and not rejected, needs_translation
\* is true exactly when the final tag is not English, or the raw text has a
\* Devanagari code point, or the keyword override fired; the inbound
\* translation is attempted exactly when the flag is true, and no translation
\* call at all is made when it is false.
C7_TranslationGate ==
  (Consulted("classify") /\ outcome # "rejected") =>
    /\ needs_translation
         <=> (detected_lang # "en" \/ HasDevanagari(RawText) \/ is_romanish)
    /\ pc # "translate_in" => (Consulted("translate_in") <=> needs_translation)
    /\ ~needs_translation
         => ~Consulted("translate_in") /\ ~Consulted("translate_out")

C7_EnglishTagDevanagari ==
  /\ Returned
  /\ detected_lang = "en"
  /\ ~is_romanish
  /\ HasDevanagari(RawText)
  /\ needs_translation
  /\ Consulted("translate_in")

\* C8: with the dataset file missing at startup the process runs with an
\* empty dataset and no embedding matrix; every query without a pattern hit
\* returns "Error: No data available." with confidence 0.0; the embedding
\* matrix is never read and every query is answered with status 200.
C8_MissingDataset ==
  (pc # "boot" /\ ~dataset_file.exists) =>
    /\ Len(qa_data) = 0
    /\ ~question_embeddings.defined
    /\ ~Consulted("encode")
    /\ (Returned /\ outcome # "pattern_hit")
         => response = English(NoDataMessage) /\ confidence = 0
    /\ (pc = "done" /\ user_input # <<>>) => status = 200

C8_NoDataReply ==
  /\ pc = "done"
  /\ ~dataset_file.exists
  /\ status = 200
  /\ body = [response |-> English(NoDataMessage), confidence |-> 0]

\* C9: the final language tag is Hindi whenever the raw text contains, in any
\* case, a keyword of the romanized list, whatever the detector did; otherwise
\* it is the detector's tag, or English when the detector failed.  A detector
\* failure never ends the request.
C9_FinalTag ==
  /\ Consulted("classify") =>
       /\ detected_lang = RequestTag
       /\ is_romanish <=> KeywordPresent
  /\ "detect" \in failed
       => /\ outcome # "crash"
          /\ pc \notin {"idle", "chat", "fbr", "detect"}
          /\ (pc = "done" => status = 200)

C9_KeywordOverridesFailure ==
  /\ Consulted("classify")
  /\ detector = "raise"
  /\ KeywordPresent
  /\ ~HasKeyword(RawText)
  /\ detected_lang = "hi"
  /\ pc = "done"

\* the texts the pattern table answers
Patterns == {predefined_responses[i].pattern : i \in 1..Len(predefined_responses)}

\* the order of the resolver's steps
StepRank(step) ==
  CASE step = "detect" -> 1
    [] step = "classify" -> 2
    [] step = "translate_in" -> 3
    [] step = "patterns" -> 4
    [] step = "encode" -> 5
    [] step = "translate_out" -> 6

\* the moves of the resolver: Start (fbr, detect), LanguageClassified
\* (classify), Rejected, Translated or Untranslated (translate_in), 
\* PatternChecked (patterns), PatternHit, EmbeddingChecked (encode,
\* threshold), LowConfidence or Match, all ending at the return (respond)
ResolverMoves ==
  { <<"fbr", "detect">>, <<"fbr", "respond">>, <<"detect", "classify">>,
    <<"classify", "respond">>, <<"classify", "translate_in">>,
    <<"translate_in", "patterns">>, <<"patterns", "pattern_hit">>,
    <<"patterns", "encode">>, <<"pattern_hit", "respond">>,
    <<"encode", "threshold">>, <<"threshold", "respond">> }

ResolverPositions == {m[1] : m \in ResolverMoves}

MessageMissing == message.kind # "str" \/ Strip(message.text) = <<>>

\* C6: every POST /chat ends with status 400 or 200, never a server error:
\* with 400 and the fixed body, find_best_response not invoked, exactly when
\* the message is absent or empty after trimming, and with 200 otherwise.
C6_NoServerError ==
  pc = "done" =>
    /\ status \in {200, 400}
    /\ status = 400 <=> MessageMissing
    /\ status = 400
         => /\ body = [response |-> English(InvalidMessage), confidence |-> 0]
            /\ outcome = "invalid"
            /\ calls = <<>>

\* C6 for a message that is absent or a string: the same statement, which the
\* code satisfies
C6_NoServerErrorForStrings == message.kind # "null" => C6_NoServerError

====
